---- MODULE Spec2Model ----
(***************************************************************************)
(* Model of ImageTagProcessor.process (src/uploader/imageTagProcessor.ts). *)
(*                                                                         *)
(* A text is a sequence of tokens.  A token is a character of the          *)
(* punctuation the regular expressions look at ("!", "[", "]", "(", ")",   *)
(* "/", "-", "_", the newline NL) or an indivisible run of characters they *)
(* treat as a unit (a file extension ".png", the scheme "http://", the     *)
(* fence "---", a word of ordinary letters).                               *)
(***************************************************************************)
EXTENDS Integers, Sequences, FiniteSets, TLC

NL == "\n"

\* The extensions of MD_REGEX and WIKI_REGEX, each with its leading dot, as
\* indivisible tokens.  ".jpeg" is not a token of the alphabet: the
\* expressions try "jpg" before "jpeg", so it is not matched as a unit.
ImageExts == {".png", ".jpg", ".gif", ".svg", ".webp", ".excalidraw"}

\* "." of a regular expression without the s flag: any character but a line end
NoLineEnd(t, a, b) == \A j \in a..b : t[j] # NL

Tok(t, j) == IF j \in 1..Len(t) THEN t[j] ELSE "<eof>"

Max(S) == CHOOSE x \in S : \A y \in S : y <= x
Min(S) == CHOOSE x \in S : \A y \in S : x <= y

(***************************************************************************)
(* WIKI_REGEX tried at position i: "![[", a lazy name ending in an image   *)
(* extension, an optional group, "]]".                                     *)
(* The name is lazy: the ends k of the name are tried in ascending order.  *)
(* The optional group is an alternation of the empty string and a greedy   *)
(* run of any characters: after the name the closing "]]" is looked for    *)
(* first right away and then from the far end of the line backwards.       *)
(***************************************************************************)
WikiCloses(t, k) ==
    {m \in (k + 1)..(Len(t) - 1) :
        t[m] = "]" /\ t[m + 1] = "]" /\ NoLineEnd(t, k + 1, m - 1)}

WikiNameEnds(t, i) ==
    {k \in (i + 3)..Len(t) :
        t[k] \in ImageExts /\ NoLineEnd(t, i + 3, k - 1) /\ WikiCloses(t, k) # {}}

WikiMatchesAt(t, i) ==
    /\ Tok(t, i) = "!" /\ Tok(t, i + 1) = "[" /\ Tok(t, i + 2) = "["
    /\ WikiNameEnds(t, i) # {}

\* [from, to]: the span of match[0]; g1: match[1], the name with its extension
WikiMatch(t, i) ==
    LET k == Min(WikiNameEnds(t, i))
        m == IF k + 1 \in WikiCloses(t, k) THEN k + 1 ELSE Max(WikiCloses(t, k))
    IN  [from |-> i, to |-> m + 1, g1 |-> SubSeq(t, i + 3, k)]

(***************************************************************************)
(* MD_REGEX tried at position i: "![", a greedy alt text, "](", a lazy     *)
(* path ending in an image extension, ")".                                 *)
(* The alt text is greedy: the positions j of "](" are tried from the far  *)
(* end backwards; the path is lazy: its ends k are tried in ascending      *)
(* order.                                                                  *)
(***************************************************************************)
MdPathEnds(t, j) ==
    {k \in (j + 2)..(Len(t) - 1) :
        t[k] \in ImageExts /\ NoLineEnd(t, j + 2, k - 1) /\ t[k + 1] = ")"}

MdAltEnds(t, i) ==
    {j \in (i + 2)..(Len(t) - 1) :
        t[j] = "]" /\ t[j + 1] = "(" /\ NoLineEnd(t, i + 2, j - 1)
        /\ MdPathEnds(t, j) # {}}

MdMatchesAt(t, i) ==
    /\ Tok(t, i) = "!" /\ Tok(t, i + 1) = "["
    /\ MdAltEnds(t, i) # {}

\* g2: match[2], the path with its extension
MdMatch(t, i) ==
    LET j == Max(MdAltEnds(t, i))
        k == Min(MdPathEnds(t, j))
    IN  [from |-> i, to |-> k + 1, g2 |-> SubSeq(t, j + 2, k)]

\* String.prototype.matchAll with a /g expression: leftmost matches, each
\* search resuming right after the previous match
RECURSIVE WikiMatchAll(_, _)
WikiMatchAll(t, i) ==
    IF i > Len(t) THEN <<>>
    ELSE IF WikiMatchesAt(t, i)
         THEN <<WikiMatch(t, i)>> \o WikiMatchAll(t, WikiMatch(t, i).to + 1)
         ELSE WikiMatchAll(t, i + 1)

RECURSIVE MdMatchAll(_, _)
MdMatchAll(t, i) ==
    IF i > Len(t) THEN <<>>
    ELSE IF MdMatchesAt(t, i)
         THEN <<MdMatch(t, i)>> \o MdMatchAll(t, MdMatch(t, i).to + 1)
         ELSE MdMatchAll(t, i + 1)

(***************************************************************************)
(* Paths.  A path is a text whose separators are the tokens "/"; its       *)
(* segments are the runs of tokens between them.                           *)
(***************************************************************************)
RECURSIVE SplitPath(_, _)
\* the segments of p, empty ones included; cur is the segment being read
SplitPath(p, cur) ==
    IF p = <<>> THEN <<cur>>
    ELSE IF Head(p) = "/" THEN <<cur>> \o SplitPath(Tail(p), <<>>)
         ELSE SplitPath(Tail(p), Append(cur, Head(p)))

RECURSIVE JoinSegs(_)
JoinSegs(segs) ==
    IF segs = <<>> THEN <<>>
    ELSE IF Len(segs) = 1 THEN segs[1]
         ELSE segs[1] \o <<"/">> \o JoinSegs(Tail(segs))

IsAbsolute(p) == p # <<>> /\ p[1] = "/"

RECURSIVE NormalizeString(_, _, _)
\* node's normalizeString: "." and empty segments are dropped, ".." removes
\* the segment before it, and is kept when there is none and the path is
\* relative
NormalizeString(segs, out, allowAboveRoot) ==
    IF segs = <<>> THEN out
    ELSE LET sg == Head(segs) IN
         IF sg = <<>> \/ sg = <<".">>
         THEN NormalizeString(Tail(segs), out, allowAboveRoot)
         ELSE IF sg = <<"..">>
              THEN IF out # <<>> /\ out[Len(out)] # <<"..">>
                   THEN NormalizeString(Tail(segs), SubSeq(out, 1, Len(out) - 1),
                                        allowAboveRoot)
                   ELSE IF allowAboveRoot
                        THEN NormalizeString(Tail(segs), Append(out, sg), allowAboveRoot)
                        ELSE NormalizeString(Tail(segs), out, allowAboveRoot)
              ELSE NormalizeString(Tail(segs), Append(out, sg), allowAboveRoot)

\* path.normalize (posix)
normalize(p) ==
    IF p = <<>> THEN <<".">>
    ELSE LET abs   == IsAbsolute(p)
             trail == p[Len(p)] = "/"
             body  == JoinSegs(NormalizeString(SplitPath(p, <<>>), <<>>, ~abs))
             rel   == IF body = <<>> /\ ~abs THEN <<".">> ELSE body
             withT == IF rel # <<>> /\ trail THEN rel \o <<"/">> ELSE rel
         IN  IF abs THEN <<"/">> \o withT ELSE withT

\* path.join of two arguments: the non-empty ones joined by "/", normalized
join(a, b) ==
    IF a = <<>> /\ b = <<>> THEN <<".">>
    ELSE IF a = <<>> THEN normalize(b)
         ELSE IF b = <<>> THEN normalize(a)
              ELSE normalize(a \o <<"/">> \o b)

NonEmptySegs(p) == SelectSeq(SplitPath(p, <<>>), LAMBDA sg : sg # <<>>)

\* path.dirname (posix), for a path without repeated separators
dirname(p) ==
    LET segs == NonEmptySegs(p) IN
    IF Len(segs) <= 1
    THEN IF IsAbsolute(p) THEN <<"/">> ELSE <<".">>
    ELSE IF IsAbsolute(p)
         THEN <<"/">> \o JoinSegs(SubSeq(segs, 1, Len(segs) - 1))
         ELSE JoinSegs(SubSeq(segs, 1, Len(segs) - 1))

\* path.basename: the last segment
basename(p) ==
    LET segs == NonEmptySegs(p) IN
    IF segs = <<>> THEN <<>> ELSE segs[Len(segs)]

\* obsidian's normalizePath: runs of separators become one, leading and
\* trailing separators are removed, the empty path becomes "/"
normalizePath(p) ==
    LET body == JoinSegs(NonEmptySegs(p)) IN
    IF body = <<>> THEN <<"/">> ELSE body

(***************************************************************************)
(* Text operations of the rewrite.                                         *)
(***************************************************************************)
StartsWith(t, pre) == Len(t) >= Len(pre) /\ SubSeq(t, 1, Len(pre)) = pre

RECURSIVE replaceAll(_, _, _)
\* String.prototype.replaceAll with a string pattern: every occurrence of
\* src, found left to right without overlap, becomes rep
replaceAll(t, src, rep) ==
    IF src = <<>> \/ Len(t) < Len(src) THEN t
    ELSE IF StartsWith(t, src)
         THEN rep \o replaceAll(SubSeq(t, Len(src) + 1, Len(t)), src, rep)
         ELSE <<Head(t)>> \o replaceAll(Tail(t), src, rep)

\* decodeURI on the escapes of the alphabet
decodeURI(t) == [j \in 1..Len(t) |-> IF t[j] = "%20" THEN " " ELSE t[j]]

\* path.parse(name).name: the last segment without its extension (a segment
\* that is only an extension is a dot file and has none)
IsExtToken(tk) == tk \in ImageExts \cup {".md", ".pdf"}
ParsedName(name) ==
    LET base == basename(name) IN
    IF Len(base) > 1 /\ IsExtToken(base[Len(base)])
    THEN SubSeq(base, 1, Len(base) - 1)
    ELSE base

\* .replaceAll("-", " ").replaceAll("_", " ")
Spaced(t) == [j \in 1..Len(t) |-> IF t[j] \in {"-", "_"} THEN " " ELSE t[j]]

altTextOf(imageAltText, name) == IF imageAltText THEN Spaced(ParsedName(name)) ELSE <<>>

\* the template literal  ![altText](url)
MarkdownLink(altText, url) == <<"!", "[">> \o altText \o <<"]", "(">> \o url \o <<")">>

\* PROPERTIES_REGEX: at the very start a fence "---", lazily one or more
\* characters of any kind, a fence "---" and a newline
PropertiesEnds(t) ==
    {e \in 3..(Len(t) - 1) : t[1] = "---" /\ t[e] = "---" /\ t[e + 1] = NL}

\* value.replace(PROPERTIES_REGEX, "")
StripProperties(t) ==
    IF PropertiesEnds(t) = {} THEN t
    ELSE SubSeq(t, Min(PropertiesEnds(t)) + 2, Len(t))

(***************************************************************************)
(* getAttachmentPath and getImageLists.  An image is a record              *)
(* [name, path, url, source].                                              *)
(***************************************************************************)
\* the attachment folder taken from the vault root whatever useRelativePath
getAttachmentPathAtRoot(st, notePath) == st.attachmentLocation

getAttachmentPath(st, notePath) ==
    IF ~st.useRelativePath THEN st.attachmentLocation
    ELSE LET loc == st.attachmentLocation
             relativePath == IF StartsWith(loc, <<".", "/">>)
                             THEN SubSeq(loc, 3, Len(loc)) ELSE loc
         IN  join(dirname(notePath), relativePath)

WikiImage(st, notePath, m, value) ==
    LET name      == m.g1
        path_name == IF name[Len(name)] = ".excalidraw" THEN name \o <<".png">> ELSE name
        imagePath == join(getAttachmentPath(st, notePath), path_name)
    IN  [name |-> name, path |-> normalizePath(imagePath),
         source |-> SubSeq(value, m.from, m.to), url |-> <<>>]

IsRemote(p) == p # <<>> /\ p[1] \in {"http://", "https://"}

MdImage(st, notePath, m, value) ==
    LET decodedPath == decodeURI(m.g2)
        imagePath   == IF st.useRelativePath /\ ~IsAbsolute(decodedPath)
                       THEN join(dirname(notePath), decodedPath)
                       ELSE decodedPath
    IN  [name |-> basename(decodedPath), path |-> normalizePath(imagePath),
         source |-> SubSeq(value, m.from, m.to), url |-> <<>>]

\* the markdown-link matches first, then the embed matches
getImageListsLinksFirst(st, notePath, value) ==
    LET wikiMatches == WikiMatchAll(value, 1)
        mdMatches   == SelectSeq(MdMatchAll(value, 1), LAMBDA m : ~IsRemote(m.g2))
    IN  [j \in 1..Len(mdMatches) |-> MdImage(st, notePath, mdMatches[j], value)]
        \o [j \in 1..Len(wikiMatches) |-> WikiImage(st, notePath, wikiMatches[j], value)]

\* the embed matches first, then the markdown-link matches
getImageLists(st, notePath, value) ==
    LET wikiMatches == WikiMatchAll(value, 1)
        mdMatches   == SelectSeq(MdMatchAll(value, 1), LAMBDA m : ~IsRemote(m.g2))
    IN  [j \in 1..Len(wikiMatches) |-> WikiImage(st, notePath, wikiMatches[j], value)]
        \o [j \in 1..Len(mdMatches) |-> MdImage(st, notePath, mdMatches[j], value)]

(***************************************************************************)
(* Inputs: the documents, the settings, the vault and the action.          *)
(***************************************************************************)
MaxImages == 3

ACTION_PUBLISH == "PUBLISH"
Actions == {ACTION_PUBLISH, "EXPORT"}

NoFile == <<>>
NotePaths == {<<"notes", "/", "a", ".md">>}
AttachmentLocations == {<<"assets">>}

\* the lines a document is made of: two embeds and a markdown link
EmbedA == <<"!", "[", "[", "my", "-", "a", ".png", "]", "]", NL>>
EmbedB == <<"!", "[", "[", "b", ".png", "]", "]", NL>>
LinkC  == <<"!", "[", "x", "]", "(", "c", ".png", ")", NL>>
Lines  == {EmbedA, EmbedB, LinkC}

FrontMatter == <<"---", NL, "k", NL, "---", NL>>

RECURSIVE Concat(_)
Concat(ss) == IF ss = <<>> THEN <<>> ELSE Head(ss) \o Concat(Tail(ss))

Bodies == UNION {{Concat(f) : f \in [1..n -> Lines]} : n \in 0..MaxImages}

\* lines that hold no image of the vault: text, an embed that is no image and
\* a markdown link to a remote image
TextLine   == <<"text", NL>>
PdfEmbed   == <<"!", "[", "[", "d", ".pdf", "]", "]", NL>>
RemoteLink == <<"!", "[", "x", "]", "(", "https://", "r", "/", "c", ".png", ")", NL>>
PlainLines == {TextLine, PdfEmbed, RemoteLink}
PlainBodies == UNION {{Concat(f) : f \in [1..n -> PlainLines]} : n \in 1..MaxImages}
\* one image line between two lines that hold none
MixedBodies == {p \o l \o q : p \in PlainLines, l \in Lines, q \in PlainLines}

Docs == {pre \o b : pre \in {<<>>, FrontMatter},
                     b \in Bodies \cup PlainBodies \cup MixedBodies}

\* the files of the vault: for a set of file names, a file of that name in
\* every directory a reference of the documents can resolve to
AssetNames == {<<"my", "-", "a", ".png">>, <<"b", ".png">>, <<"c", ".png">>}
AssetDirs  == {<<"notes", "/", "assets">>, <<"notes">>, <<"assets">>, <<".">>}
FilesNamed(S) == {normalizePath(join(d, n)) : d \in AssetDirs, n \in S}
Vaults == {FilesNamed(S) : S \in SUBSET AssetNames}

\* the urls a backend can answer an upload of the file with: the file's name
\* under the backend's public address
UrlsFor(name) == {<<"https://", "cdn", "/">> \o name}

\* the settings; the two that do not bear on the control flow of process,
\* imageAltText and useRelativePath, are switched together
Settings ==
    {st \in [attachmentLocation : AttachmentLocations, useRelativePath : BOOLEAN,
             imageAltText : BOOLEAN, replaceOriginalDoc : BOOLEAN,
             ignoreProperties : BOOLEAN] : st.imageAltText = st.useRelativePath}

(***************************************************************************)
(* State.                                                                  *)
(***************************************************************************)
VARIABLES
    activeFile,   \* workspace.getActiveFile(): the note's path, or NoFile
    hasEditor,    \* whether getEditor() finds an active markdown view
    editorText,   \* the text the editor holds
    settings,     \* the PublishSettings
    action,       \* the argument of process
    vault,        \* the paths getAbstractFileByPath finds
    pc,           \* where process is: start, loop, read, join, resolved, rejected
    value,        \* the local variable value
    images,       \* the local variable images
    idx,          \* the position of the for loop in images
    upload,       \* per image: none, pending, ok, failed
    clipboard,    \* the texts written to the clipboard, in order
    trace,        \* the calls process made to the editor, the vault, the
                  \* uploader, the clipboard and Notice, in order
    failures,     \* the images whose catch branch showed its Notice, in order
    edits,        \* the texts another writer put into the editor, in order
    r2            \* one call of R2Uploader.upload: its fields and locals

vars == <<activeFile, hasEditor, editorText, settings, action, vault,
          pc, value, images, idx, upload, clipboard, trace, failures, edits, r2>>

inputs == <<activeFile, hasEditor, settings, action, vault>>

\* what no step of process changes: the other writer's record and the uploader
outside == <<edits, r2>>

\* an uploader that has not been called
NoCall == [state |-> "idle"]

Ev(e, k, t) == [ev |-> e, ref |-> k, text |-> t]

Init ==
    /\ \/ /\ activeFile \in NotePaths
          /\ \/ hasEditor = TRUE /\ editorText \in Docs
             \/ hasEditor = FALSE /\ editorText = <<>>
          /\ settings \in Settings
          /\ vault \in Vaults
       \/ /\ activeFile = NoFile
          /\ hasEditor \in BOOLEAN
          /\ editorText = IF hasEditor THEN FrontMatter \o EmbedA \o LinkC ELSE <<>>
          /\ settings \in {st \in Settings : st.replaceOriginalDoc}
          /\ vault = FilesNamed(AssetNames)
    /\ action \in Actions
    /\ pc = "start"
    /\ value = <<>>
    /\ images = <<>>
    /\ idx = 1
    /\ upload = <<>>
    /\ clipboard = <<>>
    /\ trace = <<>>
    /\ failures = <<>>
    /\ edits = <<>>
    /\ r2 = NoCall

(***************************************************************************)
(* process, up to its first await.                                         *)
(***************************************************************************)
getValue == IF hasEditor THEN editorText ELSE <<>>

\* a guard that shows the notice and goes on instead of returning
StartWithoutReturn ==
    /\ pc = "start"
    /\ value' = getValue
    /\ trace' = (IF activeFile = NoFile
                 THEN Append(trace, Ev("notice_no_active_file", 0, <<>>)) ELSE trace)
                \o (IF hasEditor THEN <<Ev("getValue", 0, editorText)>> ELSE <<>>)
    /\ images' = IF activeFile = NoFile THEN <<>>
                 ELSE getImageLists(settings, activeFile, getValue)
    /\ upload' = [k \in 1..Len(images') |-> "none"]
    /\ idx' = 1
    /\ pc' = IF images' = <<>> THEN "join" ELSE "loop"
    /\ UNCHANGED <<inputs, outside, editorText, clipboard, failures>>

\* a call that returns at once when the document holds no image
StartSkipsEmpty ==
    /\ pc = "start"
    /\ IF activeFile = NoFile
       THEN /\ trace' = Append(trace, Ev("notice_no_active_file", 0, <<>>))
            /\ pc' = "resolved"
            /\ UNCHANGED <<value, images, idx, upload>>
       ELSE /\ value' = getValue
            /\ trace' = IF hasEditor THEN Append(trace, Ev("getValue", 0, editorText))
                                     ELSE trace
            /\ images' = getImageLists(settings, activeFile, getValue)
            /\ upload' = [k \in 1..Len(images') |-> "none"]
            /\ idx' = 1
            /\ pc' = IF images' = <<>> THEN "resolved" ELSE "loop"
    /\ UNCHANGED <<inputs, outside, editorText, clipboard, failures>>

Start ==
    /\ pc = "start"
    /\ IF activeFile = NoFile
       THEN /\ trace' = Append(trace, Ev("notice_no_active_file", 0, <<>>))
            /\ pc' = "resolved"
            /\ UNCHANGED <<value, images, idx, upload>>
       ELSE /\ value' = getValue
            /\ trace' = IF hasEditor THEN Append(trace, Ev("getValue", 0, editorText))
                                     ELSE trace
            /\ images' = getImageLists(settings, activeFile, getValue)
            /\ upload' = [k \in 1..Len(images') |-> "none"]
            /\ idx' = 1
            /\ pc' = IF images' = <<>> THEN "join" ELSE "loop"
    /\ UNCHANGED <<inputs, outside, editorText, clipboard, failures>>

\* a loop that skips a missing asset (continue) in the place of the break
CheckExistsContinue ==
    /\ pc = "loop"
    /\ LET image == images[idx] IN
       IF image.path \in vault
       THEN /\ trace' = Append(trace, Ev("exists", idx, image.path))
            /\ pc' = "read"
            /\ idx' = idx
       ELSE /\ trace' = trace \o <<Ev("exists", idx, image.path),
                                   Ev("notice_missing", idx, image.path)>>
            /\ idx' = idx + 1
            /\ pc' = IF idx + 1 > Len(images) THEN "join" ELSE "loop"
    /\ UNCHANGED <<inputs, outside, editorText, value, images, upload, clipboard, failures>>

\* a missing asset that ends the call (return) in the place of the break
CheckExistsReturns ==
    /\ pc = "loop"
    /\ LET image == images[idx] IN
       IF image.path \in vault
       THEN /\ trace' = Append(trace, Ev("exists", idx, image.path))
            /\ pc' = "read"
       ELSE /\ trace' = trace \o <<Ev("exists", idx, image.path),
                                   Ev("notice_missing", idx, image.path)>>
            /\ pc' = "resolved"
    /\ UNCHANGED <<inputs, outside, editorText, value, images, idx, upload, clipboard, failures>>

\* await getAbstractFileByPath(image.path), and the break of the loop
CheckExists ==
    /\ pc = "loop"
    /\ LET image == images[idx] IN
       IF image.path \in vault
       THEN /\ trace' = Append(trace, Ev("exists", idx, image.path))
            /\ pc' = "read"
       ELSE /\ trace' = trace \o <<Ev("exists", idx, image.path),
                                   Ev("notice_missing", idx, image.path)>>
            /\ pc' = "join"
    /\ UNCHANGED <<inputs, outside, editorText, value, images, idx, upload, clipboard, failures>>

\* an upload that is awaited before the loop goes on: the next one is issued
\* only when none is outstanding
EnqueueAfterSettled ==
    /\ pc = "read"
    /\ \A k \in DOMAIN upload : upload[k] # "pending"
    /\ trace' = trace \o <<Ev("readBinary", idx, images[idx].path),
                           Ev("upload", idx, images[idx].path)>>
    /\ upload' = [upload EXCEPT ![idx] = "pending"]
    /\ idx' = idx + 1
    /\ pc' = IF idx + 1 > Len(images) THEN "join" ELSE "loop"
    /\ UNCHANGED <<inputs, outside, editorText, value, images, clipboard, failures>>

\* await readBinary(image.path), promises.push, uploader.upload
Enqueue ==
    /\ pc = "read"
    /\ trace' = trace \o <<Ev("readBinary", idx, images[idx].path),
                           Ev("upload", idx, images[idx].path)>>
    /\ upload' = [upload EXCEPT ![idx] = "pending"]
    /\ idx' = idx + 1
    /\ pc' = IF idx + 1 > Len(images) THEN "join" ELSE "loop"
    /\ UNCHANGED <<inputs, outside, editorText, value, images, clipboard, failures>>

\* the then branch of uploader.upload: image.url = imgUrl; resolve(image)
UploadResolve(k, imgUrl) ==
    /\ k \in DOMAIN upload
    /\ upload[k] = "pending"
    /\ images' = [images EXCEPT ![k].url = imgUrl]
    /\ upload' = [upload EXCEPT ![k] = "ok"]
    /\ UNCHANGED <<inputs, outside, editorText, pc, value, idx, clipboard, trace, failures>>

\* the failure notices kept in list order instead of the order of failing
UploadRejectSorted(k) ==
    /\ k \in DOMAIN upload
    /\ upload[k] = "pending"
    /\ upload' = [upload EXCEPT ![k] = "failed"]
    /\ failures' = SelectSeq(failures, LAMBDA j : j < k) \o <<k>>
                      \o SelectSeq(failures, LAMBDA j : j > k)
    /\ UNCHANGED <<inputs, outside, editorText, pc, value, images, idx, clipboard, trace>>

\* a catch branch that hands the error on: the promise of the join rejects
UploadRejectPropagates(k) ==
    /\ k \in DOMAIN upload
    /\ upload[k] = "pending"
    /\ upload' = [upload EXCEPT ![k] = "failed"]
    /\ failures' = Append(failures, k)
    /\ pc' = IF pc = "join" THEN "rejected" ELSE pc
    /\ UNCHANGED <<inputs, outside, editorText, value, images, idx, clipboard, trace>>

\* the catch branch of uploader.upload: a notice, and no resolve
UploadReject(k) ==
    /\ k \in DOMAIN upload
    /\ upload[k] = "pending"
    /\ upload' = [upload EXCEPT ![k] = "failed"]
    /\ failures' = Append(failures, k)
    /\ UNCHANGED <<inputs, outside, editorText, pc, value, images, idx, clipboard, trace>>

(***************************************************************************)
(* The join: Promise.all(promises).then(...)                               *)
(***************************************************************************)
\* the images whose promise was pushed
promises == {k \in DOMAIN upload : upload[k] # "none"}

\* a catch branch that also resolves the promise, with the url still empty
PromiseResolvedOnFailure(k) == upload[k] \in {"ok", "failed"}

\* the promise pushed for image k is resolved in the then branch only
PromiseResolved(k) == upload[k] = "ok"

\* Promise.race in the place of Promise.all: the first resolved promise
AnyResolved == promises = {} \/ \E k \in promises : upload[k] = "ok"

\* Promise.all resolves when every promise of the list is resolved
AllResolved == \A k \in promises : PromiseResolved(k)

RECURSIVE Substitute(_, _, _)
\* the for loop of the callback over the resolved images, in list order
Substitute(v, imgs, alt) ==
    IF imgs = <<>> THEN v
    ELSE LET image == Head(imgs) IN
         Substitute(replaceAll(v, image.source,
                               MarkdownLink(altTextOf(alt, image.name), image.url)),
                    Tail(imgs), alt)

\* the images Promise.all hands to the callback: the pushed ones, in order
JoinedImages == [k \in 1..Cardinality(promises) |-> images[k]]

\* the front matter stripped before the editor is written
JoinStripFirst ==
    /\ pc = "join"
    /\ AllResolved
    /\ LET rewritten == Substitute(value, JoinedImages, settings.imageAltText)
           writes    == settings.replaceOriginalDoc /\ hasEditor
           published == IF settings.ignoreProperties
                        THEN StripProperties(rewritten) ELSE rewritten
           t1 == IF settings.ignoreProperties
                 THEN Append(trace, Ev("strip", 0, published)) ELSE trace
           t2 == IF writes THEN Append(t1, Ev("setValue", 0, published)) ELSE t1
       IN  /\ editorText' = IF writes THEN published ELSE editorText
           /\ value' = published
           /\ IF action = ACTION_PUBLISH
              THEN /\ clipboard' = Append(clipboard, published)
                   /\ trace' = t2 \o <<Ev("writeText", 0, published),
                                        Ev("notice_copied", 0, <<>>)>>
                   /\ pc' = "resolved"
              ELSE /\ clipboard' = clipboard
                   /\ trace' = Append(t2, Ev("throw_invalid_action", 0, <<>>))
                   /\ pc' = "rejected"
    /\ UNCHANGED <<inputs, outside, images, idx, upload, failures>>

\* the editor written whatever replaceOriginalDoc says
JoinAlwaysWrites ==
    /\ pc = "join"
    /\ AllResolved
    /\ LET rewritten == Substitute(value, JoinedImages, settings.imageAltText)
           writes    == hasEditor
           published == IF settings.ignoreProperties
                        THEN StripProperties(rewritten) ELSE rewritten
           t1 == IF writes THEN Append(trace, Ev("setValue", 0, rewritten)) ELSE trace
           t2 == IF settings.ignoreProperties
                 THEN Append(t1, Ev("strip", 0, published)) ELSE t1
       IN  /\ editorText' = IF writes THEN rewritten ELSE editorText
           /\ value' = published
           /\ IF action = ACTION_PUBLISH
              THEN /\ clipboard' = Append(clipboard, published)
                   /\ trace' = t2 \o <<Ev("writeText", 0, published),
                                        Ev("notice_copied", 0, <<>>)>>
                   /\ pc' = "resolved"
              ELSE /\ clipboard' = clipboard
                   /\ trace' = Append(t2, Ev("throw_invalid_action", 0, <<>>))
                   /\ pc' = "rejected"
    /\ UNCHANGED <<inputs, outside, images, idx, upload, failures>>

\* a callback that reads the editor again before it substitutes
JoinRereads ==
    /\ pc = "join"
    /\ AllResolved
    /\ LET rewritten == Substitute(getValue, JoinedImages, settings.imageAltText)
           writes    == settings.replaceOriginalDoc /\ hasEditor
           published == IF settings.ignoreProperties
                        THEN StripProperties(rewritten) ELSE rewritten
           t1 == IF writes THEN Append(trace, Ev("setValue", 0, rewritten)) ELSE trace
           t2 == IF settings.ignoreProperties
                 THEN Append(t1, Ev("strip", 0, published)) ELSE t1
       IN  /\ editorText' = IF writes THEN rewritten ELSE editorText
           /\ value' = published
           /\ IF action = ACTION_PUBLISH
              THEN /\ clipboard' = Append(clipboard, published)
                   /\ trace' = t2 \o <<Ev("writeText", 0, published),
                                        Ev("notice_copied", 0, <<>>)>>
                   /\ pc' = "resolved"
              ELSE /\ clipboard' = clipboard
                   /\ trace' = Append(t2, Ev("throw_invalid_action", 0, <<>>))
                   /\ pc' = "rejected"
    /\ UNCHANGED <<inputs, outside, images, idx, upload, failures>>

\* the callback of Promise.all(promises).then
Join ==
    /\ pc = "join"
    /\ AllResolved
    /\ LET rewritten == Substitute(value, JoinedImages, settings.imageAltText)
           writes    == settings.replaceOriginalDoc /\ hasEditor
           published == IF settings.ignoreProperties
                        THEN StripProperties(rewritten) ELSE rewritten
           t1 == IF writes THEN Append(trace, Ev("setValue", 0, rewritten)) ELSE trace
           t2 == IF settings.ignoreProperties
                 THEN Append(t1, Ev("strip", 0, published)) ELSE t1
       IN  /\ editorText' = IF writes THEN rewritten ELSE editorText
           /\ value' = published
           /\ IF action = ACTION_PUBLISH
              THEN /\ clipboard' = Append(clipboard, published)
                   /\ trace' = t2 \o <<Ev("writeText", 0, published),
                                        Ev("notice_copied", 0, <<>>)>>
                   /\ pc' = "resolved"
              ELSE /\ clipboard' = clipboard
                   /\ trace' = Append(t2, Ev("throw_invalid_action", 0, <<>>))
                   /\ pc' = "rejected"
    /\ UNCHANGED <<inputs, outside, images, idx, upload, failures>>

Next ==
    \/ Start
    \/ CheckExists
    \/ Enqueue
    \/ \E k \in DOMAIN upload : \E imgUrl \in UrlsFor(images[k].name) :
          UploadResolve(k, imgUrl)
    \/ \E k \in DOMAIN upload : UploadReject(k)
    \/ Join

Spec == Init /\ [][Next]_vars

TypeOK ==
    /\ pc \in {"start", "loop", "read", "join", "resolved", "rejected",
              "extract", "upload", "rewrite", "done", "uploader"}
    /\ \A k \in DOMAIN upload : upload[k] \in {"none", "pending", "ok", "failed"}
    /\ DOMAIN upload = DOMAIN images \/ pc = "start"

(***************************************************************************)
(* Vocabulary of the properties.                                           *)
(***************************************************************************)
Pending  == {k \in DOMAIN upload : upload[k] = "pending"}
Failed   == {k \in DOMAIN upload : upload[k] = "failed"}
Uploaded == {k \in DOMAIN upload : upload[k] = "ok"}

Events(e) == {j \in DOMAIN trace : trace[j].ev = e}
Count(e)  == Cardinality(Events(e))

\* the text process read from the editor ("" without an editor)
ReadText == IF Events("getValue") = {} THEN <<>>
            ELSE trace[Min(Events("getValue"))].text

Contains(t, sub) ==
    \E i \in 1..(Len(t) - Len(sub) + 1) : SubSeq(t, i, i + Len(sub) - 1) = sub

\* the markdown link process substitutes for image k
LinkOf(k) == MarkdownLink(altTextOf(settings.imageAltText, images[k].name), images[k].url)

\* no guard of an action holds: process has ended, or it waits at the join
\* for a promise that no outstanding upload is left to resolve
Quiescent ==
    /\ pc \notin {"start", "loop", "read"}
    /\ Pending = {}
    /\ ~(pc = "join" /\ AllResolved)

\* C1 (as claimed): when two located references were enqueued and one upload
\* failed while the other succeeded, process ends with a final text, written
\* to the clipboard (and to the editor when replaceOriginalDoc is set), that
\* holds the link of the successful reference and the unmodified snippet of
\* the failed one, after exactly one upload-failure notification.
C1_PartialFailureRewrites ==
    (/\ Quiescent
     /\ action = ACTION_PUBLISH
     /\ Cardinality(promises) = 2
     /\ Cardinality(Failed) = 1 /\ Cardinality(Uploaded) = 1)
    => /\ Len(failures) = 1
       /\ Len(clipboard) = 1
       /\ \A k \in Uploaded : Contains(clipboard[1], LinkOf(k))
       /\ \A k \in Failed : Contains(clipboard[1], images[k].source)
       /\ (settings.replaceOriginalDoc /\ hasEditor)
             => /\ \A k \in Uploaded : Contains(editorText, LinkOf(k))
                /\ \A k \in Failed : Contains(editorText, images[k].source)

\* a quiescent state is final: no action leaves it
QuiescentIsFinal == [][~Quiescent]_vars

\* C2 (as claimed): once the loop is over and every enqueued upload has
\* settled, with a url or with a failure, process goes on to the rewrite and
\* the publish action and its promise settles; stated on finite runs: a run
\* of process that can take no further step has settled its promise.
C2_JoinCompletes == Quiescent => pc \in {"resolved", "rejected"}

\* the images whose upload returned a url, in list order
UploadedImages ==
    LET ks == SelectSeq([k \in 1..Len(images) |-> k], LAMBDA k : upload[k] = "ok")
    IN  [j \in 1..Len(ks) |-> images[ks[j]]]

\* a markdown link with nothing between its parentheses
HasEmptyLink(t) == \E i \in 1..(Len(t) - 1) : t[i] = "(" /\ t[i + 1] = ")"

C4_MissingAssetEndsEnqueueing ==
    /\ Count("notice_missing") <= 1
    /\ \A m \in Events("notice_missing") :
          /\ \A j \in DOMAIN trace :
                j > m => trace[j].ev \notin {"exists", "readBinary", "upload"}
          /\ trace[m - 1] = Ev("exists", trace[m].ref, trace[m].text)
          /\ \A j \in Events("exists") : trace[j].ref <= trace[m].ref
          /\ \A j \in Events("readBinary") \cup Events("upload") :
                trace[j].ref < trace[m].ref
          /\ \A k \in DOMAIN upload :
                /\ k >= trace[m].ref => upload[k] = "none"
                /\ k < trace[m].ref => upload[k] # "none"
          /\ pc \in {"join", "resolved", "rejected"}

\* C4 witness: the second of three references is missing; the first was
\* uploaded all the same and the third, whose asset exists, was never looked at
C4_Witness ==
    /\ Len(images) = 3
    /\ Count("notice_missing") = 1
    /\ upload = <<"ok", "none", "none">>
    /\ images[3].path \in vault
    /\ Count("exists") = 2
    /\ pc = "resolved"

\* C5: the substitution pass, the editor overwrite, the stripping, the
\* clipboard write and the success notice happen only when no upload of the
\* invocation is outstanding.
C5_RewriteAfterAllSettled ==
    (\/ Count("setValue") + Count("strip") + Count("writeText")
           + Count("notice_copied") + Count("throw_invalid_action") > 0
     \/ value # ReadText
     \/ pc \in {"resolved", "rejected"})
    => Pending = {}

\* C5 witness: a finished run with two uploads, an editor write and a
\* clipboard write
C5_Witness ==
    /\ pc = "resolved"
    /\ Cardinality(Uploaded) >= 2
    /\ Count("setValue") = 1 /\ Count("writeText") = 1 /\ Count("notice_copied") = 1

\* C6 (as claimed): with an action other than PUBLISH process fails before
\* anything is done: no upload is issued, the editor is not overwritten and
\* nothing is written to the clipboard.
C6_InvalidActionEndsAtOnce ==
    action # ACTION_PUBLISH
    => /\ Count("upload") = 0
       /\ Count("setValue") = 0
       /\ clipboard = <<>>

\* C7: without an active document process shows the no-active-file notice
\* and returns: nothing else is called (no editor read, no existence check,
\* no binary read, no upload, no editor or clipboard write), no reference is
\* extracted and the editor keeps its text.
C7_NoActiveFileReturns ==
    activeFile = NoFile
    => /\ \/ pc = "start" /\ trace = <<>>
          \/ pc = "resolved" /\ trace = <<Ev("notice_no_active_file", 0, <<>>)>>
       /\ images = <<>> /\ upload = <<>> /\ value = <<>>
       /\ clipboard = <<>>
       /\ editorText = IF hasEditor THEN FrontMatter \o EmbedA \o LinkC ELSE <<>>

\* C7 witness: process has returned without an active document, though an
\* editor holding references was there and replaceOriginalDoc is set
C7_Witness ==
    /\ activeFile = NoFile /\ pc = "resolved"
    /\ hasEditor /\ settings.replaceOriginalDoc
    /\ getImageLists(settings, <<"notes", "/", "a", ".md">>, editorText) # <<>>

\* the front-matter block PROPERTIES_REGEX finds in t ("" if none)
PropertiesOf(t) ==
    IF PropertiesEnds(t) = {} THEN <<>> ELSE SubSeq(t, 1, Min(PropertiesEnds(t)) + 1)

\* C8: with replaceOriginalDoc and ignoreProperties set, the text written
\* to the editor is the rewritten text with the front-matter block of the
\* text read still at its head; the write comes before the stripping and the
\* clipboard write; the clipboard gets that text with the block removed, and
\* the editor keeps the unstripped text.
C8_EditorKeepsFrontMatter ==
    (settings.replaceOriginalDoc /\ settings.ignoreProperties)
    => \A j \in Events("setValue") :
          LET T == trace[j].text IN
          /\ T = Substitute(ReadText, UploadedImages, settings.imageAltText)
          /\ StartsWith(T, PropertiesOf(ReadText))
          /\ editorText = T
          /\ \A i \in Events("strip") \cup Events("writeText") : j < i
          /\ \A i \in Events("writeText") :
                /\ trace[i].text = StripProperties(T)
                /\ PropertiesOf(ReadText) # <<>>
                      => /\ T = PropertiesOf(ReadText) \o trace[i].text
                         /\ T # trace[i].text

\* C8 witness: a document with front matter and an uploaded image was
\* written to the editor with the block and to the clipboard without it
C8_Witness ==
    /\ pc = "resolved"
    /\ settings.replaceOriginalDoc /\ settings.ignoreProperties
    /\ PropertiesOf(ReadText) = FrontMatter
    /\ Uploaded # {}
    /\ Count("setValue") = 1
    /\ editorText = FrontMatter \o clipboard[1]

\* C9 (as claimed): in an invocation with an active document the text is read
\* from the editor exactly once, first of all calls; it is written at most
\* once, only by the join and with no upload outstanding: once the join has
\* run, exactly once if replaceOriginalDoc is set and never if it is unset.
C9_ReadOnceWriteOnce ==
    (activeFile # NoFile /\ pc # "start")
    => /\ Count("getValue") = 1 /\ trace[1].ev = "getValue"
       /\ Count("setValue") <= 1
       /\ Count("setValue") > 0 => Pending = {}
       /\ pc \notin {"resolved", "rejected"} => Count("setValue") = 0
       /\ pc \in {"resolved", "rejected"}
            => Count("setValue") = IF settings.replaceOriginalDoc THEN 1 ELSE 0

\* C9 (amended): the same, for an invocation that finds an editor; without an
\* editor, as without an active document, the text is neither read nor
\* written.
C9_ReadOnceWriteOnceWithEditor ==
    /\ (activeFile = NoFile \/ ~hasEditor)
         => Count("getValue") = 0 /\ Count("setValue") = 0
    /\ (activeFile # NoFile /\ hasEditor /\ pc # "start")
         => /\ Count("getValue") = 1 /\ trace[1].ev = "getValue"
            /\ Count("setValue") <= 1
            /\ Count("setValue") > 0 => Pending = {}
            /\ pc \notin {"resolved", "rejected"} => Count("setValue") = 0
            /\ pc \in {"resolved", "rejected"}
                 => Count("setValue") = IF settings.replaceOriginalDoc THEN 1 ELSE 0

\* C9 witness: a finished run that read the editor once, uploaded two images
\* and wrote the editor once
C9_Witness ==
    /\ pc = "resolved" /\ hasEditor /\ settings.replaceOriginalDoc
    /\ Cardinality(Uploaded) >= 2
    /\ Count("getValue") = 1 /\ Count("setValue") = 1

\* C10: the loop never waits for an upload: whatever the state of the
\* uploads issued so far, the existence check and the enqueueing of the next
\* reference can be taken, and every outstanding upload can settle, with a
\* url or with a failure, whatever the others have done.
C10_UploadsOverlap ==
    /\ pc = "loop" => ENABLED CheckExists
    /\ pc = "read" => ENABLED Enqueue
    /\ \A k \in Pending :
          /\ ENABLED UploadReject(k)
          /\ \A imgUrl \in UrlsFor(images[k].name) : ENABLED UploadResolve(k, imgUrl)

\* C10 witness: the uploads of a document with MaxImages references are all
\* outstanding at once
C10_Witness ==
    /\ Len(images) = MaxImages
    /\ Cardinality(Pending) = MaxImages

\* the final text as the document, the settings and the outcomes of the
\* uploads fix it: the snippets of the enqueued references, in list order,
\* replaced by the link to the url their upload answered with
OutcomeText ==
    LET urlOf(k) == CHOOSE u \in UrlsFor(images[k].name) : TRUE
        done == [k \in 1..Cardinality(promises) |-> [images[k] EXCEPT !.url = urlOf(k)]]
        rewritten == Substitute(ReadText, done, settings.imageAltText)
    IN  IF settings.ignoreProperties THEN StripProperties(rewritten) ELSE rewritten

\* an upload failed in this step
Rejects(k) == k \in DOMAIN upload /\ upload[k] = "pending" /\ upload'[k] = "failed"

\* C11: for a document, settings and upload outcomes, the final text is the
\* same whatever the order in which the uploads complete: every text handed
\* to the clipboard is the one text the outcomes fix; only the order of the
\* failure notices follows the completion order: a notice is shown in the
\* very step in which its upload fails, behind the notices shown before.
C11_FinalTextOrderIndependent ==
    /\ [](\A j \in DOMAIN clipboard : clipboard[j] = OutcomeText)
    /\ [][/\ \A k \in DOMAIN upload : Rejects(k) => failures' = Append(failures, k)
          /\ failures' # failures => \E k \in DOMAIN upload : Rejects(k)]_vars

\* C11 witness: two uploads failed in the order opposite to the order of
\* their references, and the notices are in the order of failing
C11_Witness ==
    /\ Len(failures) = 2
    /\ failures[1] > failures[2]
    /\ \E k \in Uploaded : k < failures[1]

\* the call has an active document in which it found no image reference
NoReferences == activeFile # NoFile /\ pc # "start" /\ images = <<>>

\* the calls process makes for a reference
ReferenceCalls == Events("exists") \cup Events("readBinary") \cup Events("upload")

\* C12 (as claimed): on a text with no image reference process makes no
\* existence check, read or upload, the text it writes to the editor is the
\* text it read, and the publish action runs on that same text.
C12_NoReferencesNoChange ==
    NoReferences
    => /\ ReferenceCalls = {}
       /\ \A j \in Events("setValue") : trace[j].text = ReadText
       /\ (pc = "resolved" /\ action = ACTION_PUBLISH) => clipboard = <<ReadText>>

\* C12 (amended): the same, but the publish action runs on the text read
\* without its front matter when ignoreProperties is set.
C12_NoReferencesNoChangeButStrip ==
    NoReferences
    => /\ ReferenceCalls = {}
       /\ \A j \in Events("setValue") : trace[j].text = ReadText
       /\ pc \in {"resolved", "rejected"} /\ settings.replaceOriginalDoc /\ hasEditor
             => Count("setValue") = 1 /\ editorText = ReadText
       /\ (pc = "resolved" /\ action = ACTION_PUBLISH)
             => clipboard = <<IF settings.ignoreProperties
                              THEN StripProperties(ReadText) ELSE ReadText>>
       /\ (Quiescent /\ action = ACTION_PUBLISH) => pc = "resolved"

\* C12 witness: a document of front matter, text and a remote image was
\* written back as it was read and published without its front matter
C12_Witness ==
    /\ NoReferences /\ pc = "resolved"
    /\ Contains(ReadText, TextLine) /\ Contains(ReadText, RemoteLink)
    /\ PropertiesOf(ReadText) = FrontMatter
    /\ settings.ignoreProperties /\ Count("setValue") = 1
    /\ editorText = ReadText
    /\ clipboard # <<ReadText>>

(***************************************************************************)
(* The extractor and the rewrite on their own: getImageLists applied to    *)
(* texts in which references share a line, every upload answered with a   *)
(* url, and the substitution loop of the join.                             *)
(***************************************************************************)
MaxFragments == 3

\* the pieces a text is made of
FragEmbed   == <<"!", "[", "[", "my", "-", "a", ".png", "]", "]">>
FragSized   == <<"!", "[", "[", "b", ".png", "|", "100", "]", "]">>
FragDraw    == <<"!", "[", "[", "d", ".excalidraw", "]", "]">>
FragLink    == <<"!", "[", "x", "]", "(", "c", ".png", ")">>
FragRemote  == <<"!", "[", "x", "]", "(", "https://", "r", "/", "c", ".png", ")">>
FragEncoded == <<"!", "[", "y", "]", "(", "sub", "/", "e", "%20", "f", ".jpg", ")">>
Fragments == {FragEmbed, FragSized, FragDraw, FragLink, FragRemote, FragEncoded,
              <<" ">>, <<NL>>}

ExtractDocs == UNION {{Concat(f) : f \in [1..n -> Fragments]} : n \in 1..MaxFragments}

\* the inputs of the path resolution
ExtractNotePaths == {<<"notes", "/", "a", ".md">>, <<"a", ".md">>,
                     <<"notes", "/", "sub", "/", "a", ".md">>}
ExtractLocations == {<<"assets">>, <<".", "/", "assets">>,
                     <<".", "/", ".", "/", "assets">>, <<"..", "/", "img">>,
                     <<"/", "abs">>, <<".", "/">>}
PathDocs == {FragEmbed, FragDraw \o <<NL>> \o FragEmbed, FragLink \o <<NL>> \o FragSized}
PathSettings ==
    [attachmentLocation : ExtractLocations, useRelativePath : BOOLEAN,
     imageAltText : {FALSE}, replaceOriginalDoc : {FALSE}, ignoreProperties : {FALSE}]

ExtractInit ==
    /\ \/ /\ editorText \in ExtractDocs
          /\ activeFile \in NotePaths
          /\ settings \in {st \in Settings :
                              ~st.replaceOriginalDoc /\ ~st.ignoreProperties}
       \/ /\ editorText \in PathDocs
          /\ activeFile \in ExtractNotePaths
          /\ settings \in PathSettings
    /\ hasEditor = TRUE
    /\ action = ACTION_PUBLISH
    /\ vault = {}
    /\ pc = "extract"
    /\ value = <<>>
    /\ images = <<>>
    /\ idx = 1
    /\ upload = <<>>
    /\ clipboard = <<>>
    /\ trace = <<>>
    /\ failures = <<>>
    /\ edits = <<>>
    /\ r2 = NoCall

\* let value = this.getValue(); const images = this.getImageLists(value)
Extract ==
    /\ pc = "extract"
    /\ value' = getValue
    /\ images' = getImageLists(settings, activeFile, getValue)
    /\ upload' = [k \in 1..Len(images') |-> "none"]
    /\ pc' = "upload"
    /\ UNCHANGED <<inputs, outside, editorText, idx, clipboard, trace, failures>>

\* every upload answered with a url: image.url = imgUrl, for every image
UploadAll ==
    /\ pc = "upload"
    /\ images' = [k \in DOMAIN images |->
                    [images[k] EXCEPT !.url = CHOOSE u \in UrlsFor(images[k].name) : TRUE]]
    /\ upload' = [k \in DOMAIN images |-> "ok"]
    /\ pc' = "rewrite"
    /\ UNCHANGED <<inputs, outside, editorText, value, idx, clipboard, trace, failures>>

\* the substitution loop of the callback of Promise.all
Rewrite ==
    /\ pc = "rewrite"
    /\ value' = Substitute(value, images, settings.imageAltText)
    /\ pc' = "done"
    /\ UNCHANGED <<inputs, outside, editorText, images, idx, upload, clipboard, trace, failures>>

ExtractNext == Extract \/ UploadAll \/ Rewrite

ExtractSpec == ExtractInit /\ [][ExtractNext]_vars

\* the spans of match[0] of the matches getImageLists makes images of, in the
\* order of the list
MatchSpans(t) ==
    LET wikiMatches == WikiMatchAll(t, 1)
        mdMatches   == SelectSeq(MdMatchAll(t, 1), LAMBDA m : ~IsRemote(m.g2))
    IN  [j \in 1..Len(wikiMatches) |->
            [kind |-> "wiki", from |-> wikiMatches[j].from, to |-> wikiMatches[j].to]]
        \o [j \in 1..Len(mdMatches) |->
            [kind |-> "md", from |-> mdMatches[j].from, to |-> mdMatches[j].to]]

Overlap(a, b) == a.from <= b.to /\ b.from <= a.to

\* C13 (as claimed): the snippets of the references the extractor returns,
\* embeds and markdown links together, occupy pairwise disjoint spans of the
\* text, and once every upload has returned a url the snippet of every
\* reference has been found and replaced by its link.
C13_SnippetsDisjoint ==
    LET spans == MatchSpans(editorText) IN
    /\ pc # "extract"
         => /\ Len(images) = Len(spans)
            /\ \A i, j \in DOMAIN spans : i # j => ~Overlap(spans[i], spans[j])
    /\ pc = "done" => \A k \in DOMAIN images : Contains(value, LinkOf(k))

\* the positions at which sub occurs in t
Occurrences(t, sub) ==
    {i \in 1..(Len(t) - Len(sub) + 1) : SubSeq(t, i, i + Len(sub) - 1) = sub}

\* C14 (as claimed): a markdown image link whose path starts with http:// or
\* https:// never becomes a reference: no image of the list has a remote
\* path or holds the remote link in its snippet, and the rewrite leaves the
\* text of every remote link as it was.
C14_RemoteLinksUntouched ==
    /\ pc # "extract"
         => \A k \in DOMAIN images :
               /\ ~Contains(images[k].path, <<"https://">>)
               /\ ~Contains(images[k].source, FragRemote)
    /\ pc = "done"
         => Cardinality(Occurrences(value, FragRemote))
              = Cardinality(Occurrences(editorText, FragRemote))

\* path.join of any number of arguments: the non-empty ones joined by "/",
\* normalized
JoinAll(parts) ==
    LET given == SelectSeq(parts, LAMBDA a : a # <<>>) IN
    IF given = <<>> THEN <<".">> ELSE normalize(JoinSegs(given))

\* the path C15 claims for the embed of file f
ClaimedEmbedPath(f) ==
    LET loc == settings.attachmentLocation
        stripped == IF StartsWith(loc, <<".", "/">>) THEN SubSeq(loc, 3, Len(loc)) ELSE loc
    IN  IF settings.useRelativePath
        THEN normalizePath(JoinAll(<<dirname(activeFile), stripped, f>>))
        ELSE normalizePath(JoinAll(<<loc, f>>))

\* the images of the list that come from an embed
EmbedImages ==
    {k \in DOMAIN images : MatchSpans(editorText)[k].kind = "wiki"}

\* C15 (as claimed): the path of the embed of file f is the normalized join
\* of the note's directory, attachmentLocation without one leading "./" and
\* f when useRelativePath is set, and the normalized join of
\* attachmentLocation and f, whatever the note's directory, when it is not.
C15_EmbedPath ==
    pc # "extract"
    => \A k \in EmbedImages : images[k].path = ClaimedEmbedPath(images[k].name)

\* the file an embed of f stands for: an excalidraw drawing is looked up as
\* the png exported next to it
EmbedFile(f) == IF f[Len(f)] = ".excalidraw" THEN f \o <<".png">> ELSE f

\* C15 (amended): the same with, in the place of f, f followed by ".png"
\* when f ends in ".excalidraw"; with attachmentLocation "assets" and the
\* note notes/a.md the embed of my-a.png is looked up at
\* notes/assets/my-a.png.
C15_EmbedPathOfFile ==
    pc # "extract"
    => \A k \in EmbedImages :
          /\ images[k].path = ClaimedEmbedPath(EmbedFile(images[k].name))
          /\ (/\ settings.useRelativePath
              /\ settings.attachmentLocation = <<"assets">>
              /\ activeFile = <<"notes", "/", "a", ".md">>
              /\ images[k].name = <<"my", "-", "a", ".png">>)
                => images[k].path = <<"notes", "/", "assets", "/", "my", "-", "a", ".png">>
          /\ ~settings.useRelativePath
                => images[k].path
                     = normalizePath(join(settings.attachmentLocation,
                                          EmbedFile(images[k].name)))

\* C15 witness: in the note notes/sub/a.md, with attachmentLocation
\* "./assets" and useRelativePath set, a drawing and an image are embedded
C15_Witness ==
    /\ pc = "upload"
    /\ settings.useRelativePath
    /\ settings.attachmentLocation = <<".", "/", "assets">>
    /\ Len(images) = 2
    /\ images[1].path = <<"notes", "/", "sub", "/", "assets", "/", "d", ".excalidraw", ".png">>
    /\ images[2].path = <<"notes", "/", "sub", "/", "assets", "/", "my", "-", "a", ".png">>

(***************************************************************************)
(* R2Uploader.upload: the object key and the url.                          *)
(***************************************************************************)
MaxKeyLen == 4

\* what UploaderUtils.generateName can hand back: any text of folder and file
\* names and separators
KeyTokens == {"/", "img", "a.png"}
GeneratedNames == UNION {[1..n -> KeyTokens] : n \in 1..MaxKeyLen}
CustomDomainNames == {<<>>, <<"cdn.example">>}
Bucket == "bkt"
Endpoint == "https://acct.r2.example"

R2Init ==
    /\ r2 \in [state : {"idle"}, generated : GeneratedNames,
               customDomainName : CustomDomainNames, key : {<<>>}, url : {<<>>}]
    /\ activeFile = NoFile
    /\ hasEditor = FALSE
    /\ editorText = <<>>
    /\ settings \in {st \in Settings : ~st.useRelativePath /\ ~st.replaceOriginalDoc
                                          /\ ~st.ignoreProperties}
    /\ action = ACTION_PUBLISH
    /\ vault = {}
    /\ pc = "uploader"
    /\ value = <<>>
    /\ images = <<>>
    /\ idx = 1
    /\ upload = <<>>
    /\ clipboard = <<>>
    /\ trace = <<>>
    /\ failures = <<>>
    /\ edits = <<>>

\* path.replace with an expression that removes one leading separator only
StripOneSlash(path) ==
    IF path # <<>> /\ Head(path) = "/" THEN Tail(path) ELSE path

RECURSIVE StripLeadingSlashes(_)
\* path.replace with the expression for a run of leading separators
StripLeadingSlashes(path) ==
    IF path # <<>> /\ Head(path) = "/" THEN StripLeadingSlashes(Tail(path)) ELSE path

\* upload, up to the call of s3.upload: Key: path
R2Upload ==
    /\ r2.state = "idle"
    /\ r2' = [r2 EXCEPT !.key = StripLeadingSlashes(r2.generated),
                        !.state = "uploading"]
    /\ UNCHANGED <<inputs, edits, editorText, pc, value, images, idx, upload,
                   clipboard, trace, failures>>

\* data.Location of a path-style upload
Location(key) == <<Endpoint, "/", Bucket, "/">> \o key

\* the callback of s3.upload without an error: resolve(url)
R2Resolve ==
    /\ r2.state = "uploading"
    /\ r2' = [r2 EXCEPT
                !.url = IF r2.customDomainName # <<>>
                        THEN <<"https://">> \o r2.customDomainName \o <<"/">> \o r2.key
                        ELSE <<"https://", Bucket, ".r2.dev", "/">>
                               \o SubSeq(Location(r2.key), 5, Len(Location(r2.key))),
                !.state = "resolved"]
    /\ UNCHANGED <<inputs, edits, editorText, pc, value, images, idx, upload,
                   clipboard, trace, failures>>

\* the callback of s3.upload with an error: reject(err)
R2Reject ==
    /\ r2.state = "uploading"
    /\ r2' = [r2 EXCEPT !.state = "rejected"]
    /\ UNCHANGED <<inputs, edits, editorText, pc, value, images, idx, upload,
                   clipboard, trace, failures>>

R2Next == R2Upload \/ R2Resolve \/ R2Reject

R2Spec == R2Init /\ [][R2Next]_vars

\* C16: the key R2Uploader.upload hands to the store never begins with a
\* separator: it is the generated name without its whole run of leading
\* separators, and the url built for a custom domain ends in that same key.
C16_KeyHasNoLeadingSlash ==
    r2.state # "idle"
    => /\ r2.key = <<>> \/ r2.key[1] # "/"
       /\ \E n \in 0..Len(r2.generated) :
             /\ \A j \in 1..n : r2.generated[j] = "/"
             /\ r2.key = SubSeq(r2.generated, n + 1, Len(r2.generated))
       /\ (r2.state = "resolved" /\ r2.customDomainName # <<>>)
             => r2.url = <<"https://">> \o r2.customDomainName \o <<"/">> \o r2.key

\* C16 witness: a name generated with two leading separators was uploaded
\* under its folder and file name, and the custom-domain url holds that key
C16_Witness ==
    /\ r2.state = "resolved"
    /\ r2.generated = <<"/", "/", "img", "a.png">>
    /\ r2.key = <<"img", "a.png">>
    /\ r2.url = <<"https://", "cdn.example", "/", "img", "a.png">>

\* C17: a failed upload is absorbed inside process: it shows one notice for
\* its reference, it never makes the promise of process reject, and it
\* leaves the other uploads alone: an outstanding one can still return its
\* url, and the url an upload returned stays assigned to its image.
C17_FailureAbsorbed ==
    /\ Failed # {} => pc # "rejected"
    /\ Len(failures) = Cardinality(Failed)
    /\ {failures[j] : j \in DOMAIN failures} = Failed
    /\ Failed # {}
         => \A k \in Pending : \A imgUrl \in UrlsFor(images[k].name) :
               ENABLED UploadResolve(k, imgUrl)
    /\ \A k \in DOMAIN upload :
          images[k].url = IF k \in Uploaded
                          THEN CHOOSE u \in UrlsFor(images[k].name) : TRUE ELSE <<>>

\* C17 witness: every upload has settled, one failed and one enqueued after
\* it returned its url
C17_Witness ==
    /\ pc = "join" /\ Pending = {}
    /\ \E f \in Failed : \E k \in Uploaded : f < k /\ images[k].url # <<>>

MaxEdits == 1

EditInit ==
    /\ Init
    /\ activeFile # NoFile /\ hasEditor
    /\ editorText \in Bodies
    /\ action = ACTION_PUBLISH
    /\ ~settings.ignoreProperties

\* Editor.setValue called by another writer while process awaits
OtherWrite ==
    /\ pc \in {"loop", "read", "join"}
    /\ hasEditor
    /\ Len(edits) < MaxEdits
    /\ editorText' = editorText \o <<"edit", NL>>
    /\ edits' = Append(edits, editorText')
    /\ UNCHANGED <<inputs, r2, pc, value, images, idx, upload, clipboard, trace,
                   failures>>

EditNext == Next \/ OtherWrite

EditSpec == EditInit /\ [][EditNext]_vars

\* C19: the text process writes back is computed from the text it read at
\* the start and from the urls of the uploads alone: whatever another
\* writer put into the editor between the read and the write, setValue
\* gets the substituted snapshot and the editor holds it afterwards, so that
\* the other writer's text is gone.
C19_WriteFromSnapshot ==
    /\ \A j \in Events("setValue") :
          trace[j].text = Substitute(ReadText, UploadedImages, settings.imageAltText)
    /\ (pc = "resolved" /\ Count("setValue") = 1)
         => /\ editorText = trace[Min(Events("setValue"))].text
            /\ ~Contains(editorText, <<"edit", NL>>)

\* C19 witness: the lost update: another writer changed the editor while an
\* upload was awaited, and the write of process replaced that text
C19_Witness ==
    /\ pc = "resolved"
    /\ edits # <<>>
    /\ Uploaded # {}
    /\ Count("setValue") = 1
    /\ editorText # edits[Len(edits)]
    /\ ~Contains(editorText, <<"edit", NL>>)

\* the reference the missing-asset warning names
MissingRef == trace[Min(Events("notice_missing"))].ref

\* a run with a missing asset in which every enqueued upload returned a url
\* and no step is left to take, under the publish action
MissingAssetRunOver ==
    /\ Count("notice_missing") = 1
    /\ action = ACTION_PUBLISH
    /\ Failed = {}
    /\ Quiescent

\* the number of places at which sub occurs in t
Times(t, sub) == Cardinality(Occurrences(t, sub))

====
